---- MODULE Spec2Model ----
(***************************************************************************)
(* Model of apps/backend/scripts/create-onnx-model.py: the construction of *)
(* the fixed ONNX graph (create_simple_weather_model) and the run of       *)
(* main(): validate, create the output directory, write the file, report.  *)
(*                                                                         *)
(* Numbers: the float32 literals of the script are kept in hundredths      *)
(* (0.4 is 40); softmax results are in thousandths.                        *)
(***************************************************************************)
EXTENDS Integers, Sequences, FiniteSets, TLC

\* How many times the script is started in one behaviour.
MaxRuns == 2

-----------------------------------------------------------------------------
(* create_simple_weather_model(): the literals of the script                *)

\* TensorProto.FLOAT, the element type enum value of onnx.
FLOAT == 1

\* helper.make_model stamps the IR version of the installed onnx package.
IR_VERSION == 8

\* model.opset_import[0].version = 13
OPSET_VERSION == 13

input_node ==
    [name |-> "weather_input", elem_type |-> FLOAT, shape |-> <<1, 4>>]

output_node ==
    [name |-> "advice_category", elem_type |-> FLOAT, shape |-> <<1, 5>>]

weights ==
    << <<40, 30, 20, 10>>,
       <<20, 40, 30, 10>>,
       <<10, 20, 60, 10>>,
       <<30, 20, 10, 40>>,
       <<25, 25, 25, 25>> >>

bias == <<10, 10, 10, 10, 10>>

\* ndarray.flatten(): row-major concatenation of the rows.
RECURSIVE flatten(_)
flatten(m) == IF m = <<>> THEN <<>> ELSE Head(m) \o flatten(Tail(m))

weight_tensor ==
    [name |-> "weights", data_type |-> FLOAT, dims |-> <<5, 4>>,
     float_data |-> flatten(weights)]

bias_tensor ==
    [name |-> "bias", data_type |-> FLOAT, dims |-> <<5>>,
     float_data |-> bias]

matmul_node ==
    [op_type |-> "MatMul", input |-> <<"weather_input", "weights">>,
     output |-> <<"matmul_output">>, attribute |-> <<>>]

add_node ==
    [op_type |-> "Add", input |-> <<"matmul_output", "bias">>,
     output |-> <<"add_output">>, attribute |-> <<>>]

softmax_node ==
    [op_type |-> "Softmax", input |-> <<"add_output">>,
     output |-> <<"advice_category">>,
     attribute |-> << [name |-> "axis", type |-> "INT", i |-> 1] >>]

\* A variant of graph with the Add node declared before the MatMul node.
graph_reordered ==
    [node |-> <<add_node, matmul_node, softmax_node>>,
     name |-> "weather_advisor",
     input |-> <<input_node>>,
     output |-> <<output_node>>,
     initializer |-> <<weight_tensor, bias_tensor>>]

graph ==
    [node |-> <<matmul_node, add_node, softmax_node>>,
     name |-> "weather_advisor",
     input |-> <<input_node>>,
     output |-> <<output_node>>,
     initializer |-> <<weight_tensor, bias_tensor>>]

create_simple_weather_model ==
    [ir_version |-> IR_VERSION,
     producer_name |-> "vaero-weather-ai",
     graph |-> graph,
     opset_import |-> << [version |-> OPSET_VERSION] >>]

-----------------------------------------------------------------------------
(* Names of a graph                                                         *)

Range(s) == {s[k] : k \in DOMAIN s}

InputNames(g) == {g.input[k].name : k \in DOMAIN g.input}

InitializerNames(g) == {g.initializer[k].name : k \in DOMAIN g.initializer}

\* The names the nodes before position k produce.
ProducedBefore(g, k) ==
    UNION {Range(g.node[j].output) : j \in 1..(k - 1)}

\* The names node k may consume.
Available(g, k) ==
    InputNames(g) \cup InitializerNames(g) \cup ProducedBefore(g, k)

\* The output slots <<node, position>> of the graph.
OutputSlots(g) ==
    UNION {{<<k, j>> : j \in DOMAIN g.node[k].output} : k \in DOMAIN g.node}

\* How many sources (graph input, initializer, node output slot) carry name n.
Producers(g, n) ==
    Cardinality({k \in DOMAIN g.input : g.input[k].name = n})
    + Cardinality({k \in DOMAIN g.initializer : g.initializer[k].name = n})
    + Cardinality({kj \in OutputSlots(g) : g.node[kj[1]].output[kj[2]] = n})

AllNames(g) ==
    InputNames(g) \cup InitializerNames(g)
    \cup UNION {Range(g.node[k].input) \cup Range(g.node[k].output) :
                  k \in DOMAIN g.node}
    \cup {g.output[k].name : k \in DOMAIN g.output}

-----------------------------------------------------------------------------
(* onnx.checker.check_model(model), as main() calls it (full_check is left  *)
(* at its default, so no shape inference runs).                             *)

\* Opset 13 operator schemas of the three operators the script uses.
OpSchema(op) ==
    CASE op = "MatMul"  -> [known |-> TRUE, n_in |-> 2, n_out |-> 1,
                            attrs |-> {}]
      [] op = "Add"     -> [known |-> TRUE, n_in |-> 2, n_out |-> 1,
                            attrs |-> {}]
      [] op = "Softmax" -> [known |-> TRUE, n_in |-> 1, n_out |-> 1,
                            attrs |-> {"axis"}]
      [] OTHER          -> [known |-> FALSE, n_in |-> 0, n_out |-> 0,
                            attrs |-> {}]

\* A node against its schema: arity, and only attributes the schema declares,
\* each with the declared type.
NodeWellFormed(n) ==
    LET s == OpSchema(n.op_type) IN
    /\ s.known
    /\ Len(n.input) = s.n_in
    /\ Len(n.output) = s.n_out
    /\ \A a \in DOMAIN n.attribute :
          n.attribute[a].name \in s.attrs /\ n.attribute[a].type = "INT"

\* Nodes are topologically sorted: every consumed name is already available.
NamesResolve(g) ==
    \A k \in DOMAIN g.node : Range(g.node[k].input) \subseteq Available(g, k)

\* Static single assignment: no name is produced twice.
SingleAssignment(g) == \A n \in AllNames(g) : Producers(g, n) <= 1

check_model(m) ==
    /\ m.ir_version > 0
    /\ Len(m.opset_import) > 0
    /\ m.graph.name # ""
    /\ \A k \in DOMAIN m.graph.node : NodeWellFormed(m.graph.node[k])
    /\ NamesResolve(m.graph)
    /\ SingleAssignment(m.graph)
    /\ \A k \in DOMAIN m.graph.output : Producers(m.graph, m.graph.output[k].name) = 1

-----------------------------------------------------------------------------
(* Shape propagation through the nodes in declaration order (ONNX operator  *)
(* semantics of MatMul, Add and Softmax at opset 13).                       *)

NoShape == [ok |-> FALSE, dims |-> <<>>]

Shape(d) == [ok |-> TRUE, dims |-> d]

\* MatMul of two matrices: the inner dimensions must agree.
MatMulShape(a, b) ==
    IF a.ok /\ b.ok /\ Len(a.dims) = 2 /\ Len(b.dims) = 2
       /\ a.dims[2] = b.dims[1]
    THEN Shape(<<a.dims[1], b.dims[2]>>)
    ELSE NoShape

\* A shape padded on the left with 1s to rank r.
PadLeft(d, r) == [k \in 1..r |-> IF k <= r - Len(d) THEN 1 ELSE d[k - (r - Len(d))]]

Max(x, y) == IF x >= y THEN x ELSE y

\* Multidirectional (numpy) broadcasting of Add.
BroadcastShape(a, b) ==
    LET r == Max(Len(a.dims), Len(b.dims))
        pa == PadLeft(a.dims, r)
        pb == PadLeft(b.dims, r)
    IN  IF a.ok /\ b.ok
           /\ \A k \in 1..r : pa[k] = pb[k] \/ pa[k] = 1 \/ pb[k] = 1
        THEN Shape([k \in 1..r |-> Max(pa[k], pb[k])])
        ELSE NoShape

\* Softmax keeps the shape; the axis must name a dimension.
SoftmaxShape(a, axis) ==
    IF a.ok /\ axis >= -Len(a.dims) /\ axis < Len(a.dims) THEN a ELSE NoShape

Lookup(env, n) == IF n \in DOMAIN env THEN env[n] ELSE NoShape

NodeShape(n, env) ==
    CASE n.op_type = "MatMul" ->
           MatMulShape(Lookup(env, n.input[1]), Lookup(env, n.input[2]))
      [] n.op_type = "Add" ->
           BroadcastShape(Lookup(env, n.input[1]), Lookup(env, n.input[2]))
      [] n.op_type = "Softmax" ->
           SoftmaxShape(Lookup(env, n.input[1]), n.attribute[1].i)
      [] OTHER -> NoShape

\* The shapes the graph declares: its inputs and its embedded constants.
DeclaredShapes(g) ==
    [n \in InputNames(g) \cup InitializerNames(g) |->
        IF n \in InitializerNames(g)
        THEN Shape(g.initializer[CHOOSE k \in DOMAIN g.initializer :
                                     g.initializer[k].name = n].dims)
        ELSE Shape(g.input[CHOOSE k \in DOMAIN g.input :
                               g.input[k].name = n].shape)]

RECURSIVE InferFrom(_, _, _)
InferFrom(g, k, env) ==
    IF k > Len(g.node) THEN env
    ELSE InferFrom(g, k + 1,
                   (g.node[k].output[1] :> NodeShape(g.node[k], env)) @@ env)

InferShapes(g) == InferFrom(g, 1, DeclaredShapes(g))

\* Every node gets a shape, and each graph output gets its declared shape.
ShapesConsistent(g) ==
    LET env == InferShapes(g) IN
    /\ \A k \in DOMAIN g.node : Lookup(env, g.node[k].output[1]).ok
    /\ \A k \in DOMAIN g.output :
          Lookup(env, g.output[k].name) = Shape(g.output[k].shape)

-----------------------------------------------------------------------------
(* Evaluation of the graph on a fed input. A tensor is its shape and its    *)
(* row-major data; a failed operator yields NoTensor.                       *)

NoTensor == [ok |-> FALSE, dims |-> <<>>, data |-> <<>>]

Tensor(d, v) == [ok |-> TRUE, dims |-> d, data |-> v]

RECURSIVE Dot(_, _, _, _, _)
\* Sum over k = 1..n of A[i, k] * B[k, j] for row-major A (n columns) and B
\* (m columns).
Dot(A, B, i, j, k) ==
    IF k = 0 THEN 0
    ELSE A.data[(i - 1) * A.dims[2] + k] * B.data[(k - 1) * B.dims[2] + j]
         + Dot(A, B, i, j, k - 1)

MatMulVal(A, B) ==
    LET s == MatMulShape(A, B) IN
    IF ~s.ok THEN NoTensor
    ELSE Tensor(s.dims,
                [c \in 1..(s.dims[1] * s.dims[2]) |->
                    Dot(A, B, ((c - 1) \div s.dims[2]) + 1,
                        ((c - 1) % s.dims[2]) + 1, A.dims[2])])

\* The element of T (rank <= 2) that broadcasting puts at row i, column j.
At(T, i, j) ==
    LET d == PadLeft(T.dims, 2) IN
    T.data[((IF d[1] = 1 THEN 1 ELSE i) - 1) * d[2]
           + (IF d[2] = 1 THEN 1 ELSE j)]

AddVal(A, B) ==
    LET s == BroadcastShape(A, B) IN
    IF ~s.ok \/ Len(s.dims) # 2 THEN NoTensor
    ELSE Tensor(s.dims,
                [c \in 1..(s.dims[1] * s.dims[2]) |->
                    At(A, ((c - 1) \div s.dims[2]) + 1, ((c - 1) % s.dims[2]) + 1)
                    + At(B, ((c - 1) \div s.dims[2]) + 1, ((c - 1) % s.dims[2]) + 1)])

\* exp(x / 100) in thousandths: the Taylor polynomial of degree 3.
ExpFix(x) == 1000 + 10 * x + (x * x) \div 20 + (x * x * x) \div 6000

RECURSIVE RowSum(_, _, _)
RowSum(T, i, j) ==
    IF j = 0 THEN 0
    ELSE ExpFix(T.data[(i - 1) * T.dims[2] + j]) + RowSum(T, i, j - 1)

\* Softmax along axis 1 of a matrix, in thousandths.
SoftmaxVal(A, axis) ==
    IF ~A.ok \/ Len(A.dims) # 2 \/ axis # 1 THEN NoTensor
    ELSE Tensor(A.dims,
                [c \in 1..(A.dims[1] * A.dims[2]) |->
                    (ExpFix(A.data[c]) * 1000)
                    \div RowSum(A, ((c - 1) \div A.dims[2]) + 1, A.dims[2])])

Value(env, n) == IF n \in DOMAIN env THEN env[n] ELSE NoTensor

NodeValue(n, env) ==
    CASE n.op_type = "MatMul" ->
           MatMulVal(Value(env, n.input[1]), Value(env, n.input[2]))
      [] n.op_type = "Add" ->
           AddVal(Value(env, n.input[1]), Value(env, n.input[2]))
      [] n.op_type = "Softmax" ->
           SoftmaxVal(Value(env, n.input[1]), n.attribute[1].i)
      [] OTHER -> NoTensor

\* The embedded constants as tensors.
Constants(g) ==
    [n \in InitializerNames(g) |->
        LET t == g.initializer[CHOOSE k \in DOMAIN g.initializer :
                                   g.initializer[k].name = n]
        IN  Tensor(t.dims, t.float_data)]

RECURSIVE EvalFrom(_, _, _)
EvalFrom(g, k, env) ==
    IF k > Len(g.node) THEN env
    ELSE EvalFrom(g, k + 1,
                  (g.node[k].output[1] :> NodeValue(g.node[k], env)) @@ env)

\* The value of the graph's output when x is fed to its input.
Run(g, x) ==
    Value(EvalFrom(g, 1,
                   (g.input[1].name :> Tensor(g.input[1].shape, x))
                   @@ Constants(g)),
          g.output[1].name)

-----------------------------------------------------------------------------
(* onnx.save(model, path): the protobuf encoding of the model. The file     *)
(* content is the sequence of the message's top-level fields, each field a  *)
(* record of its number, wire kind and payload; ByteSize is the length of   *)
(* its wire encoding in bytes.                                              *)

Field(num, wire, i, s, f, sub) ==
    [num |-> num, wire |-> wire, i |-> i, s |-> s, f |-> f, sub |-> sub]

VarintF(num, v) == Field(num, "varint", v, "", <<>>, <<>>)

StringF(num, str) == Field(num, "string", 0, str, <<>>, <<>>)

\* repeated float [packed = true]
FloatsF(num, fs) == Field(num, "floats", 0, "", fs, <<>>)

MessageF(num, toks) == Field(num, "message", 0, "", <<>>, toks)

SerTensor(t) ==
    [k \in DOMAIN t.dims |-> VarintF(1, t.dims[k])]
    \o <<VarintF(2, t.data_type), FloatsF(4, t.float_data), StringF(8, t.name)>>

SerAttribute(a) == <<StringF(1, a.name), VarintF(3, a.i), VarintF(20, 2)>>

SerNode(n) ==
    [k \in DOMAIN n.input |-> StringF(1, n.input[k])]
    \o [k \in DOMAIN n.output |-> StringF(2, n.output[k])]
    \o <<StringF(4, n.op_type)>>
    \o [k \in DOMAIN n.attribute |-> MessageF(5, SerAttribute(n.attribute[k]))]

SerValueInfo(v) ==
    <<StringF(1, v.name),
      MessageF(2, <<MessageF(1,
          <<VarintF(1, v.elem_type),
            MessageF(2, [k \in DOMAIN v.shape |->
                            MessageF(1, <<VarintF(1, v.shape[k])>>)])>>)>>)>>

SerGraph(g) ==
    [k \in DOMAIN g.node |-> MessageF(1, SerNode(g.node[k]))]
    \o <<StringF(2, g.name)>>
    \o [k \in DOMAIN g.initializer |-> MessageF(5, SerTensor(g.initializer[k]))]
    \o [k \in DOMAIN g.input |-> MessageF(11, SerValueInfo(g.input[k]))]
    \o [k \in DOMAIN g.output |-> MessageF(12, SerValueInfo(g.output[k]))]

Serialize(m) ==
    <<VarintF(1, m.ir_version), StringF(2, m.producer_name),
      MessageF(7, SerGraph(m.graph))>>
    \o [k \in DOMAIN m.opset_import |->
           MessageF(8, <<VarintF(2, m.opset_import[k].version)>>)]

\* Bytes of a base-128 varint (values below 2^21 suffice here).
VarintLen(n) == IF n < 128 THEN 1 ELSE IF n < 16384 THEN 2 ELSE 3

\* Bytes of a field key: (number << 3) | wire type, as a varint.
TagLen(num) == VarintLen(num * 8)

RECURSIVE ByteSize(_)
FieldSize(t) ==
    TagLen(t.num)
    + CASE t.wire = "varint"  -> VarintLen(t.i)
        [] t.wire = "string"  -> VarintLen(Len(t.s)) + Len(t.s)
        [] t.wire = "floats"  -> VarintLen(4 * Len(t.f)) + 4 * Len(t.f)
        [] t.wire = "message" -> VarintLen(ByteSize(t.sub)) + ByteSize(t.sub)

ByteSize(toks) ==
    IF toks = <<>> THEN 0 ELSE FieldSize(Head(toks)) + ByteSize(Tail(toks))

-----------------------------------------------------------------------------
(* Paths and the file system. A path is the sequence of its components      *)
(* from the root; dirs is the set of directories, files maps each regular   *)
(* file to its content.                                                     *)

\* The directory that holds the script.
ScriptDir == <<"backend", "scripts">>

\* The working directories the script is started from.
CwdSet == {<<"backend", "scripts">>, <<"backend">>, <<>>}

\* "../models/weather-advisor.onnx"
output_path == <<"..", "models", "weather-advisor.onnx">>

\* os.path.dirname
dirname(p) == SubSeq(p, 1, Len(p) - 1)

\* The parent of a directory; the root is its own parent.
Parent(p) == IF p = <<>> THEN <<>> ELSE SubSeq(p, 1, Len(p) - 1)

\* A relative path as the operating system resolves it: against the
\* process's current working directory.
RECURSIVE Resolve(_, _)
Resolve(base, rel) ==
    IF rel = <<>> THEN base
    ELSE Resolve(IF Head(rel) = ".." THEN Parent(base)
                 ELSE Append(base, Head(rel)),
                 Tail(rel))

Ancestors(p) == {SubSeq(p, 1, k) : k \in 0..Len(p)}

\* A variant of makedirs that creates nothing.
makedirs_skipped(ds, d) == ds

\* os.makedirs(d, exist_ok=True) on success: d and its missing ancestors.
makedirs(ds, d) == ds \cup Ancestors(d)

\* exist_ok=True: an existing directory is no error; a regular file in the
\* way is (FileExistsError).
MakedirsCanSucceed(ds, fs, d) == d \notin DOMAIN fs

\* The call can raise only when the directory is not there yet.
MakedirsCanRaise(ds, fs, d) == d \notin ds

\* A variant of WriteFile that opens the file for appending.
WriteFile_append(fs, p, content) ==
    (p :> ((IF p \in DOMAIN fs THEN fs[p] ELSE <<>>) \o content)) @@ fs

\* open(path, "wb") + write: the file's content is replaced.
WriteFile(fs, p, content) == (p :> content) @@ fs

\* os.path.getsize
getsize(fs, p) == ByteSize(fs[p])

\* A variant of FormatKB that cuts the digits after the first decimal.
FormatKB_truncated(size) == (size * 10) \div 1024

\* file_size = getsize / 1024, printed with "{:.1f}": the number of tenths
\* of a KB nearest to size/1024, ties to the even tenth.
FormatKB(size) ==
    LET q == (size * 10) \div 1024
        r == (size * 10) % 1024
    IN  IF r > 512 \/ (r = 512 /\ q % 2 = 1) THEN q + 1 ELSE q

Line(kind, path, tenths) == [line |-> kind, path |-> path, tenths |-> tenths]

-----------------------------------------------------------------------------
(* The file system the script may find.                                     *)

ModelsDirs == {Resolve(c, dirname(output_path)) : c \in CwdSet}

TargetName == output_path[Len(output_path)]

\* What a models directory may hold before the first run.
DirKinds == {"absent", "empty", "old", "file"}

\* Content of files the script did not write.
OtherContent == <<StringF(1, "notes")>>

\* An earlier, different model file.
OldContent == <<VarintF(1, 3), StringF(2, "old-producer")>>

InitDirs(kind) ==
    {ScriptDir} \cup Ancestors(ScriptDir)
    \cup {d \in ModelsDirs : kind[d] \in {"empty", "old"}}

InitFiles(kind) ==
    LET olds  == {d \in ModelsDirs : kind[d] = "old"}
        plain == {d \in ModelsDirs : kind[d] = "file"}
        dom   == plain \cup {Append(d, TargetName) : d \in olds}
                       \cup {Append(d, "README") : d \in olds}
    IN  [p \in dom |->
            IF p \in plain \/ p[Len(p)] = "README" THEN OtherContent
            ELSE OldContent]

-----------------------------------------------------------------------------
(* main()                                                                   *)

VARIABLES
    pc,      \* where the process is: idle, create, validate, makedirs, save,
             \* report, or how it ended: done, returned, crashed
    run,     \* how many times the script was started
    cwd,     \* the working directory of the current run
    model,   \* <<>> or <<the model>> held by main()
    dirs,    \* directories of the file system
    files,   \* regular files of the file system and their contents
    out,     \* lines printed to standard output by the current run
    err,     \* the uncaught exception the run died of, "" if none
    fs0,     \* the file system when the current run started
    prev     \* the previous run: its working directory and how it ended

vars == <<pc, run, cwd, model, dirs, files, out, err, fs0, prev>>

Ended == {"done", "returned", "crashed"}

TargetDir == Resolve(cwd, dirname(output_path))

TargetPath == Resolve(cwd, output_path)

Init ==
    /\ pc = "idle"
    /\ run = 0
    /\ cwd = ScriptDir
    /\ model = <<>>
    /\ \E kind \in [ModelsDirs -> DirKinds] :
          /\ dirs = InitDirs(kind)
          /\ files = InitFiles(kind)
          /\ fs0 = [dirs |-> InitDirs(kind), files |-> InitFiles(kind)]
    /\ out = <<>>
    /\ err = ""
    /\ prev = [cwd |-> <<>>, exit |-> "none"]

\* The script is started from directory c; main() prints its first line.
Start(c) ==
    /\ pc \in Ended \cup {"idle"}
    /\ run < MaxRuns
    /\ run' = run + 1
    /\ cwd' = c
    /\ prev' = IF pc = "idle" THEN prev ELSE [cwd |-> cwd, exit |-> pc]
    /\ fs0' = [dirs |-> dirs, files |-> files]
    /\ model' = <<>>
    /\ out' = <<Line("creating", <<>>, 0)>>
    /\ err' = ""
    /\ pc' = "create"
    /\ UNCHANGED <<dirs, files>>

\* model = create_simple_weather_model()
CreateModel ==
    /\ pc = "create"
    /\ model' = <<create_simple_weather_model>>
    /\ pc' = "validate"
    /\ UNCHANGED <<run, cwd, dirs, files, out, err, fs0, prev>>

\* check_model returns: the try block prints and falls through.
ValidateOk ==
    /\ pc = "validate"
    /\ check_model(model[1])
    /\ out' = Append(out, Line("validation_passed", <<>>, 0))
    /\ pc' = "makedirs"
    /\ UNCHANGED <<run, cwd, model, dirs, files, err, fs0, prev>>

\* A variant of ValidateRaise whose except block lacks the return.
ValidateRaise_noReturn ==
    /\ pc = "validate"
    /\ out' = Append(out, Line("validation_failed", <<>>, 0))
    /\ pc' = "makedirs"
    /\ UNCHANGED <<run, cwd, model, dirs, files, err, fs0, prev>>

\* check_model raises, because it rejects the model or because the call
\* fails otherwise (except Exception catches either): the except block
\* prints and main() returns.
ValidateRaise ==
    /\ pc = "validate"
    /\ \E fault \in BOOLEAN : fault \/ ~check_model(model[1])
    /\ out' = Append(out, Line("validation_failed", <<>>, 0))
    /\ pc' = "returned"
    /\ UNCHANGED <<run, cwd, model, dirs, files, err, fs0, prev>>

\* os.makedirs(os.path.dirname(output_path), exist_ok=True) returns.
MakedirsOk ==
    /\ pc = "makedirs"
    /\ MakedirsCanSucceed(dirs, files, TargetDir)
    /\ dirs' = makedirs(dirs, TargetDir)
    /\ pc' = "save"
    /\ UNCHANGED <<run, cwd, model, files, out, err, fs0, prev>>

\* os.makedirs raises; nothing catches it.
MakedirsRaise ==
    /\ pc = "makedirs"
    /\ MakedirsCanRaise(dirs, files, TargetDir)
    /\ err' = IF TargetDir \in DOMAIN files THEN "FileExistsError" ELSE "OSError"
    /\ pc' = "crashed"
    /\ UNCHANGED <<run, cwd, model, dirs, files, out, fs0, prev>>

\* onnx.save writes the whole file; main() prints the saved line.
SaveOk ==
    /\ pc = "save"
    /\ TargetDir \in dirs
    /\ files' = WriteFile(files, TargetPath, Serialize(model[1]))
    /\ out' = Append(out, Line("saved", output_path, 0))
    /\ pc' = "report"
    /\ UNCHANGED <<run, cwd, model, dirs, err, fs0, prev>>

\* A variant of SaveOpenRaise in which main() catches the error, prints it
\* and returns.
SaveOpenRaise_caught ==
    /\ pc = "save"
    /\ out' = Append(out, Line("save_failed", <<>>, 0))
    /\ pc' = "returned"
    /\ UNCHANGED <<run, cwd, model, dirs, files, err, fs0, prev>>

\* open() raises: the file system is as it was.
SaveOpenRaise ==
    /\ pc = "save"
    /\ err' = IF TargetDir \in dirs THEN "OSError" ELSE "FileNotFoundError"
    /\ pc' = "crashed"
    /\ UNCHANGED <<run, cwd, model, dirs, files, out, fs0, prev>>

\* The write fails part way: the file was truncated by open() and holds the
\* first k fields only.
SaveWriteRaise(k) ==
    /\ pc = "save"
    /\ TargetDir \in dirs
    /\ files' = WriteFile(files, TargetPath, SubSeq(Serialize(model[1]), 1, k))
    /\ err' = "OSError"
    /\ pc' = "crashed"
    /\ UNCHANGED <<run, cwd, model, dirs, out, fs0, prev>>

\* The size line and the two shape lines.
Report ==
    /\ pc = "report"
    /\ out' = out \o <<Line("size", <<>>, FormatKB(getsize(files, TargetPath))),
                       Line("input_shape", <<>>, 0),
                       Line("output_shape", <<>>, 0)>>
    /\ pc' = "done"
    /\ UNCHANGED <<run, cwd, model, dirs, files, err, fs0, prev>>

Next ==
    \/ \E c \in CwdSet : Start(c)
    \/ CreateModel
    \/ ValidateOk
    \/ ValidateRaise
    \/ MakedirsOk
    \/ MakedirsRaise
    \/ SaveOk
    \/ SaveOpenRaise
    \/ \E k \in 0..(Len(Serialize(create_simple_weather_model)) - 1) :
          SaveWriteRaise(k)
    \/ Report

Spec == Init /\ [][Next]_vars

-----------------------------------------------------------------------------
(* Properties                                                               *)

Printed(kind) == \E k \in DOMAIN out : out[k].line = kind

\* The tenths of a KB the size line of the current run reports.
ReportedTenths == out[CHOOSE k \in DOMAIN out : out[k].line = "size"].tenths

Built == model # <<>>

\* C1: a run whose validation raised reports the failure and returns with
\* no file system effect: directories and files are those the run started
\* with and neither the saved line nor the size line is printed; and
\* whenever a run has changed the file system, its validation had passed.
C1_NoEffectOnValidationFailure ==
    /\ Printed("validation_failed") =>
          /\ pc = "returned"
          /\ dirs = fs0.dirs
          /\ files = fs0.files
          /\ ~Printed("saved")
          /\ ~Printed("size")
    /\ (dirs # fs0.dirs \/ files # fs0.files) => Printed("validation_passed")

\* C1 witness: validation failed in a run started where the output
\* directory does not exist, and the run has returned.
C1_Witness ==
    /\ pc = "returned"
    /\ Printed("validation_failed")
    /\ TargetDir \notin dirs

\* C2 (as claimed): the constructed model passes a validation that checks
\* that every referenced name resolves, that the shapes are consistent and
\* that the operators' attribute sets are complete.
C2_PassesStructuralValidation ==
    Built =>
        /\ NamesResolve(model[1].graph)
        /\ ShapesConsistent(model[1].graph)
        /\ \A k \in DOMAIN model[1].graph.node :
              NodeWellFormed(model[1].graph.node[k])

\* C3 (as claimed): the declared shapes propagate through the three nodes:
\* MatMul of weather_input and weights is defined, Add of its result and
\* bias is defined, and advice_category gets its declared shape [1, 5].
C3_ShapesPropagate ==
    Built =>
        LET env == InferShapes(model[1].graph) IN
        /\ MatMulShape(env["weather_input"], env["weights"]).ok
        /\ BroadcastShape(env["matmul_output"], env["bias"]).ok
        /\ env["advice_category"] = Shape(<<1, 5>>)

\* C4 (as claimed): whatever the working directory, the only file a run
\* writes is ../models/weather-advisor.onnx relative to the script's own
\* directory.
C4_TargetRelativeToScript ==
    \A p \in DOMAIN files :
        (p \notin DOMAIN fs0.files \/ files[p] # fs0.files[p])
            => p = Resolve(ScriptDir, output_path)

\* C5: when a run succeeds after a successful run started from the same
\* directory, the output file holds exactly what it held after the first
\* of the two runs; and what a successful run leaves in the file does not
\* depend on what the path held before (nothing, an older file, or the rest
\* of a failed write): it is the encoding of the fixed model.
C5_RerunByteIdentical ==
    /\ (pc = "done" /\ prev.exit = "done" /\ prev.cwd = cwd) =>
          /\ TargetPath \in DOMAIN fs0.files
          /\ files[TargetPath] = fs0.files[TargetPath]
    /\ pc = "done" => files[TargetPath] = Serialize(create_simple_weather_model)

\* C5 witness: the second of two successful runs from the same directory
\* has completed.
C5_Witness ==
    /\ pc = "done"
    /\ run >= 2
    /\ prev.exit = "done"
    /\ prev.cwd = cwd

\* C6: the output directory exists before the write is attempted; when it
\* exists already, creating it cannot raise and succeeds; when it does not
\* exist (and no regular file has its name) it can be created, the write
\* can follow, and the file is there to be measured; a completed run leaves
\* the directory present with the serialized model inside it; and a run
\* changes nothing else: every other file keeps its content and the only
\* directory that may be new is the output directory.
C6_DirectoryCreatedOrReused ==
    /\ pc \in {"save", "report", "done"} => TargetDir \in dirs
    /\ (pc = "makedirs" /\ TargetDir \in dirs) =>
          (ENABLED MakedirsOk /\ ~ENABLED MakedirsRaise)
    /\ (pc = "makedirs" /\ TargetDir \notin dirs
          /\ TargetDir \notin DOMAIN files) => ENABLED MakedirsOk
    /\ pc = "save" => ENABLED SaveOk
    /\ pc = "report" => TargetPath \in DOMAIN files
    /\ pc = "done" =>
          /\ TargetPath \in DOMAIN files
          /\ dirname(TargetPath) = TargetDir
          /\ files[TargetPath] = Serialize(model[1])
    /\ pc # "idle" =>
          /\ fs0.dirs \subseteq dirs
          /\ dirs \subseteq fs0.dirs \cup {TargetDir}
          /\ DOMAIN files \subseteq DOMAIN fs0.files \cup {TargetPath}
          /\ \A p \in DOMAIN fs0.files \ {TargetPath} :
                p \in DOMAIN files /\ files[p] = fs0.files[p]

\* C6 witness: a run completed that found no output directory, beside
\* files of another directory that it left alone.
C6_Witness ==
    /\ pc = "done"
    /\ TargetDir \notin fs0.dirs
    /\ DOMAIN fs0.files # {}

\* C7 (as claimed): the reported number is the size of the file on disk:
\* the reported KB figure, taken back to bytes, is the file's size.
C7_ReportedIsExactSize ==
    pc = "done" => ReportedTenths * 1024 = 10 * getsize(files, TargetPath)

\* C7 (amended): the reported number is the size of the written file on
\* disk in KB (bytes / 1024) rounded to one decimal: it differs from the
\* file's size by at most half a tenth of a KB.
C7_ReportedIsRoundedSize ==
    pc = "done" =>
        /\ Printed("size")
        /\ files[TargetPath] = Serialize(model[1])
        /\ LET d == ReportedTenths * 1024 - 10 * ByteSize(files[TargetPath])
           IN  -512 <= d /\ d <= 512

\* C7 witness: a run has printed its size line for a file that replaced an
\* older file of another size.
C7_Witness ==
    /\ pc = "done"
    /\ Printed("size")
    /\ TargetPath \in DOMAIN fs0.files
    /\ ByteSize(fs0.files[TargetPath]) # ByteSize(files[TargetPath])

\* C8 (as claimed): the graph evaluated on [0, 0, 0, 0] yields five equal
\* category values (0.2 each, 200 thousandths).
C8_ZeroInputUniform ==
    Built =>
        LET y == Run(model[1].graph, <<0, 0, 0, 0>>) IN
        /\ y.ok
        /\ y.dims = <<1, 5>>
        /\ \A k \in DOMAIN y.data : y.data[k] = 200

\* C9: in declaration order every name a node consumes is a graph input, an
\* embedded constant or the output of a strictly earlier node; every name
\* has exactly one producer; and the declared output is produced by the
\* last node.
C9_NamesProducedBeforeUse ==
    Built =>
        LET g == model[1].graph IN
        /\ \A k \in DOMAIN g.node : \A n \in Range(g.node[k].input) :
              \/ n \in InputNames(g)
              \/ n \in InitializerNames(g)
              \/ \E j \in 1..(k - 1) : n \in Range(g.node[j].output)
        /\ \A n \in AllNames(g) : Producers(g, n) = 1
        /\ g.output[1].name \in Range(g.node[Len(g.node)].output)

\* C9 witness: the model has been built and has passed validation.
C9_Witness == Built /\ pc = "makedirs" /\ Printed("validation_passed")

\* C10: a failure of directory creation or of the write is not handled: the
\* step from makedirs or save that does not go on ends the run as crashed
\* with the exception recorded, prints nothing and undoes nothing (the
\* directories stay, the file is untouched or left partially written); a
\* crashed run takes no further step of its own (the next step is a new
\* start of the script, which leaves the file system as it is).
C10_IoFaultsUnhandled ==
    [][ /\ (pc = "makedirs" /\ pc' # "save") =>
              /\ pc' = "crashed" /\ err' # ""
              /\ out' = out /\ dirs' = dirs /\ files' = files
        /\ (pc = "save" /\ pc' # "report") =>
              /\ pc' = "crashed" /\ err' # ""
              /\ out' = out /\ dirs' = dirs
              /\ \/ files' = files
                 \/ /\ DOMAIN files' = DOMAIN files \cup {TargetPath}
                    /\ \A p \in DOMAIN files \ {TargetPath} : files'[p] = files[p]
                    /\ \E k \in 0..(Len(Serialize(model[1])) - 1) :
                          files'[TargetPath] = SubSeq(Serialize(model[1]), 1, k)
        /\ pc = "crashed" =>
              /\ ~Printed("saved") /\ ~Printed("size")
              /\ pc' = "create" /\ run' = run + 1
              /\ dirs' = dirs /\ files' = files
      ]_vars

\* C10 witness: a run crashed in the write after it had created the output
\* directory; the directory and the partial file are still there.
C10_Witness ==
    /\ pc = "crashed"
    /\ TargetDir \notin fs0.dirs
    /\ TargetDir \in dirs
    /\ TargetPath \in DOMAIN files
    /\ files[TargetPath] # Serialize(model[1])

====
